---------------------------- MODULE Spec2Model ----------------------------
(***************************************************************************)
(* College-Attendance-Analyser: the report-to-table extractor              *)
(* (utils/pdf_extractor.py) and the projection arithmetic                  *)
(* (utils/attendance_calc.py).                                             *)
(*                                                                         *)
(* Text is a sequence of one-character strings, so that the regular        *)
(* expressions, str.strip, re.split, str.isdigit, int and float of the     *)
(* source are computed character by character as Python computes them.     *)
(* A percentage is a decimal number [m, e] standing for m / 10^e with no   *)
(* trailing zero in the fraction, so equal numbers are equal records.      *)
(***************************************************************************)
EXTENDS Integers, Sequences, FiniteSets, TLC

(***************************************************************************)
(* Bounds of the model.                                                    *)
(***************************************************************************)
\* number of pages of the document handed to extract_attendance_data
MaxPages == 2
\* largest present / total count handed to the projection functions
MaxCount == 50

\* the largest number of upcoming classes of a call
MaxUpcoming == 4

(***************************************************************************)
(* Characters and strings.                                                 *)
(***************************************************************************)
\* str.isspace / the regex class \s
WhiteSpace == {" ", "\t", "\n", "\r"}

\* the ASCII digits: the regex class \d restricted to the model's alphabet
Digits == <<"0", "1", "2", "3", "4", "5", "6", "7", "8", "9">>

\* U+00B2 SUPERSCRIPT TWO, written as one symbol: str.isdigit() is True for
\* it, the regex class \d does not match it and int() raises ValueError
SuperTwo == "^2"

UpperCase == <<"A", "B", "C", "D", "E", "F", "G", "H", "I", "J", "K", "L", "M",
               "N", "O", "P", "Q", "R", "S", "T", "U", "V", "W", "X", "Y", "Z">>

LowerCase == <<"a", "b", "c", "d", "e", "f", "g", "h", "i", "j", "k", "l", "m",
               "n", "o", "p", "q", "r", "s", "t", "u", "v", "w", "x", "y", "z">>

\* case folding of re.IGNORECASE
Lower(c) ==
    IF \E k \in 1..26 : UpperCase[k] = c
    THEN LowerCase[CHOOSE k \in 1..26 : UpperCase[k] = c]
    ELSE c

IsDigitChar(c) == \E k \in 1..10 : Digits[k] = c

DigitVal(c) == (CHOOSE k \in 1..10 : Digits[k] = c) - 1

\* membership of a character in a regex character class
InClass(c, cls) ==
    CASE cls = "space"    -> c \in WhiteSpace
      [] cls = "digit"    -> IsDigitChar(c)
      [] cls = "any"      -> c # "\n"
      [] cls = "digitdot" -> IsDigitChar(c) \/ c = "."
      [] cls = "notparen" -> c # "("
      [] OTHER            -> FALSE

\* s[a+1 .. b], the Python slice s[a:b]
Slice(s, a, b) == SubSeq(s, a + 1, b)

\* str.strip()
Strip(s) ==
    LET inked == {k \in 1..Len(s) : s[k] \notin WhiteSpace}
    IN  IF inked = {} THEN << >>
        ELSE SubSeq(s, CHOOSE a \in inked : \A k \in inked : a <= k,
                       CHOOSE b \in inked : \A k \in inked : b >= k)

\* the j-th least element of a set of numbers
Nth(S, j) == CHOOSE k \in S : Cardinality({h \in S : h < k}) = j - 1

\* str.split(sep) for a one-character separator
Split(s, sep) ==
    LET at == {k \in 1..Len(s) : s[k] = sep}
        n  == Cardinality(at) + 1
    IN  [j \in 1..n |->
           SubSeq(s, IF j = 1 THEN 1 ELSE Nth(at, j - 1) + 1,
                     IF j = n THEN Len(s) ELSE Nth(at, j) - 1)]

\* sep.join(parts)
RECURSIVE Join(_, _)
Join(parts, sep) ==
    IF Len(parts) = 0 THEN << >>
    ELSE IF Len(parts) = 1 THEN parts[1]
    ELSE parts[1] \o sep \o Join(Tail(parts), sep)

\* str.isdigit()
IsDigitStr(s) ==
    /\ Len(s) > 0
    /\ \A k \in 1..Len(s) : IsDigitChar(s[k]) \/ s[k] = SuperTwo

\* int(s) succeeds: optional surrounding whitespace around ASCII digits
IntOk(s) ==
    LET t == Strip(s)
    IN  Len(t) > 0 /\ \A k \in 1..Len(t) : IsDigitChar(t[k])

RECURSIVE DigitsVal(_, _)
DigitsVal(s, acc) ==
    IF Len(s) = 0 THEN acc ELSE DigitsVal(Tail(s), 10 * acc + DigitVal(Head(s)))

\* int(s) where IntOk(s)
ParseInt(s) == DigitsVal(Strip(s), 0)

(***************************************************************************)
(* Regular expressions.  A pattern is a sequence of atoms, matched by      *)
(* backtracking in the priority order of Python's re module: a greedy      *)
(* quantifier tries the longest run first, a lazy one the shortest, an     *)
(* alternation its branches left to right.  Offsets are 0-based as in      *)
(* Python; a match is [ok, end, grp] with grp[g] = <<start, end>>.         *)
(***************************************************************************)
\* the upper bound of an unbounded quantifier ( * , + , {2,} )
Unbounded == 1000000

Lit(c) == [k |-> "lit", c |-> c, w |-> << >>, lo |-> 1, hi |-> 1, lazy |-> FALSE, g |-> 0]

Cls(cls, lo, hi, lazy, g) ==
    [k |-> "cls", c |-> cls, w |-> << >>, lo |-> lo, hi |-> hi, lazy |-> lazy, g |-> g]

\* an optional literal character, such as \.?
Opt(c) == [k |-> "lit", c |-> c, w |-> << >>, lo |-> 0, hi |-> 1, lazy |-> FALSE, g |-> 0]

Alt(words, g) ==
    [k |-> "alt", c |-> "", w |-> words, lo |-> 1, hi |-> 1, lazy |-> FALSE, g |-> g]

Bol == [k |-> "bol", c |-> "", w |-> << >>, lo |-> 0, hi |-> 0, lazy |-> FALSE, g |-> 0]

Eol == [k |-> "eol", c |-> "", w |-> << >>, lo |-> 0, hi |-> 0, lazy |-> FALSE, g |-> 0]

\* a literal string
Lits(s) == << Alt(<<s>>, 0) >>

NoMatch == [ok |-> FALSE, end |-> 0, grp |-> << >>]

CharMatches(a, ch, ic) ==
    IF a.k = "lit"
    THEN IF ic THEN Lower(ch) = Lower(a.c) ELSE ch = a.c
    ELSE InClass(ch, a.c)

\* the number of characters from offset pos on that atom a accepts, at most a.hi
RunLen(a, s, pos, ic) ==
    LET lim == IF a.hi < Len(s) - pos THEN a.hi ELSE Len(s) - pos
    IN  CHOOSE n \in 0..lim :
          /\ \A j \in 1..n : CharMatches(a, s[pos + j], ic)
          /\ (n = lim \/ ~CharMatches(a, s[pos + n + 1], ic))

\* word w is at offset pos of s
WordAt(w, s, pos, ic) ==
    /\ pos + Len(w) <= Len(s)
    /\ \A k \in 1..Len(w) :
          IF ic THEN Lower(s[pos + k]) = Lower(w[k]) ELSE s[pos + k] = w[k]

WithGroup(r, g, a, b) == IF g = 0 THEN r ELSE [r EXCEPT !.grp = (g :> <<a, b>>) @@ r.grp]

RECURSIVE MatchFrom(_, _, _, _, _)
RECURSIVE TryReps(_, _, _, _, _, _)
RECURSIVE TryAlt(_, _, _, _, _, _)

\* the atoms k.. of pat matched at offset pos of s
MatchFrom(pat, k, s, pos, ic) ==
    IF k > Len(pat) THEN [ok |-> TRUE, end |-> pos, grp |-> << >>]
    ELSE LET a == pat[k] IN
      CASE a.k = "bol" -> IF pos = 0 THEN MatchFrom(pat, k + 1, s, pos, ic) ELSE NoMatch
        [] a.k = "eol" ->
             IF pos = Len(s) \/ (pos = Len(s) - 1 /\ s[Len(s)] = "\n")
             THEN MatchFrom(pat, k + 1, s, pos, ic) ELSE NoMatch
        [] a.k = "alt" -> TryAlt(pat, k, s, pos, ic, 1)
        [] OTHER ->
             LET run == RunLen(a, s, pos, ic) IN
             IF run < a.lo THEN NoMatch ELSE TryReps(pat, k, s, pos, ic, run)

\* atom k repeated and then the rest: of the counts a.lo..run after which
\* the rest matches, a greedy atom takes the largest and a lazy one the least
TryReps(pat, k, s, pos, ic, run) ==
    LET a    == pat[k]
        good == {x \in {[n |-> n, r |-> MatchFrom(pat, k + 1, s, pos + n, ic)] : n \in a.lo..run} :
                   x.r.ok}
    IN  IF good = {} THEN NoMatch
        ELSE LET best == IF a.lazy THEN CHOOSE x \in good : \A y \in good : x.n <= y.n
                                   ELSE CHOOSE x \in good : \A y \in good : x.n >= y.n
             IN  WithGroup(best.r, a.g, pos, pos + best.n)

\* branch j of alternation k, then the rest; on failure the next branch
TryAlt(pat, k, s, pos, ic, j) ==
    LET a == pat[k] IN
    IF j > Len(a.w) THEN NoMatch
    ELSE IF WordAt(a.w[j], s, pos, ic)
         THEN LET r == MatchFrom(pat, k + 1, s, pos + Len(a.w[j]), ic)
              IN  IF r.ok THEN WithGroup(r, a.g, pos, pos + Len(a.w[j]))
                  ELSE TryAlt(pat, k, s, pos, ic, j + 1)
         ELSE TryAlt(pat, k, s, pos, ic, j + 1)

\* re.match(pat, s)
ReMatch(pat, s, ic) == MatchFrom(pat, 1, s, 0, ic)

\* re.search(pat, s): the match at the least offset
ReSearch(pat, s, ic) ==
    LET hits == {x \in {[pos |-> pos, r |-> MatchFrom(pat, 1, s, pos, ic)] : pos \in 0..Len(s)} :
                   x.r.ok}
    IN  IF hits = {} THEN NoMatch
        ELSE (CHOOSE x \in hits : \A y \in hits : x.pos <= y.pos).r

\* match.group(g)
Group(s, r, g) == Slice(s, r.grp[g][1], r.grp[g][2])

\* re.split(r'\s{2,}', s): cut s at every maximal run of two or more
\* whitespace characters
ReSplitWide(s) ==
    LET gaps == {k \in 1..Len(s) :
                   /\ s[k] \in WhiteSpace
                   /\ (k = 1 \/ s[k - 1] \notin WhiteSpace)
                   /\ k < Len(s) /\ s[k + 1] \in WhiteSpace}
        n    == Cardinality(gaps) + 1
        GapEnd(k) == k + RunLen(Cls("space", 2, Unbounded, FALSE, 0), s, k - 1, FALSE) - 1
    IN  [j \in 1..n |->
           SubSeq(s, IF j = 1 THEN 1 ELSE GapEnd(Nth(gaps, j - 1)) + 1,
                     IF j = n THEN Len(s) ELSE Nth(gaps, j) - 1)]

(***************************************************************************)
(* Decimal numbers: the float values the extractor returns.                *)
(***************************************************************************)
RECURSIVE Norm(_, _)
\* m / 10^e without trailing zeros in the fraction
Norm(m, e) == IF e > 0 /\ m % 10 = 0 THEN Norm(m \div 10, e - 1) ELSE [m |-> m, e |-> e]

\* the integer 0 of "... if total > 0 else 0"
Zero == [m |-> 0, e |-> 0]

\* n / d rounded to the nearest integer, ties to even
RoundHalfEven(n, d) ==
    LET q == n \div d
        r == n % d
    IN  IF 2 * r > d \/ (2 * r = d /\ q % 2 = 1) THEN q + 1 ELSE q

\* round(present / total * 100, 2) for total > 0.  The double nearest to
\* present / total * 100 rounds to the same hundredth as the exact quotient
\* for every total below 160, which covers every count of the model.
Round2(present, total) == Norm(RoundHalfEven(10000 * present, total), 2)

\* the percentage cut off after the second decimal
Truncated(present, total) ==
    IF total > 0 THEN Norm((10000 * present) \div total, 2) ELSE Zero

\* round(present / total * 100, 2) if total > 0 else 0
Percentage(present, total) == IF total > 0 THEN Round2(present, total) ELSE Zero

CountOf(s, c) == Cardinality({k \in 1..Len(s) : s[k] = c})

\* float(s) succeeds, for s matched by [\d.]+ : at most one point and a digit
FloatOk(s) == CountOf(s, ".") <= 1 /\ \E k \in 1..Len(s) : IsDigitChar(s[k])

\* float(s) where FloatOk(s)
ParseFloat(s) ==
    LET dot  == IF CountOf(s, ".") = 0 THEN Len(s) + 1
                ELSE CHOOSE k \in 1..Len(s) : s[k] = "."
        digs == SubSeq(s, 1, dot - 1) \o SubSeq(s, dot + 1, Len(s))
    IN  Norm(DigitsVal(digs, 0), Len(s) + 1 - dot - (IF dot <= Len(s) THEN 1 ELSE 0))

(***************************************************************************)
(* The patterns of extract_attendance_data.                                *)
(***************************************************************************)
Spaces0 == Cls("space", 0, Unbounded, FALSE, 0)

Spaces1 == Cls("space", 1, Unbounded, FALSE, 0)

Unknown == <<"U", "n", "k", "n", "o", "w", "n">>

WSubject == <<"S", "u", "b", "j", "e", "c", "t">>

WType == <<"T", "y", "p", "e">>

WPresent == <<"P", "r", "e", "s", "e", "n", "t">>

WTotal == <<"T", "o", "t", "a", "l">>

WOverall == <<"O", "v", "e", "r", "a", "l", "l">>

WName == <<"N", "a", "m", "e">>

WReport == <<"S", "e", "l", "f", " ", "A", "t", "t", "e", "n", "d", "a", "n", "c", "e",
             " ", "R", "e", "p", "o", "r", "t">>

\* \s*:\s*([^(]+)
NameTail == <<Spaces0, Lit(":"), Spaces0, Cls("notparen", 1, Unbounded, FALSE, 1)>>

student_name_patterns ==
    << Lits(WReport) \o NameTail,
       Lits(<<"S", "t", "u", "d", "e", "n", "t">>) \o <<Spaces0>> \o Lits(WName) \o NameTail,
       Lits(WName) \o NameTail >>

\* Subject\s+Type\s+Present\s+Total
HeaderTail ==
    Lits(WSubject) \o <<Spaces1>> \o Lits(WType) \o <<Spaces1>>
      \o Lits(WPresent) \o <<Spaces1>> \o Lits(WTotal)

start_patterns ==
    << Lits(<<"S", "r", "N", "o">>) \o <<Spaces1>> \o Lits(WSubject) \o <<Spaces1>> \o HeaderTail,
       Lits(<<"S", "r">>) \o <<Opt("."), Spaces0>> \o Lits(<<"N", "o">>) \o <<Opt("."), Spaces1>>
         \o Lits(WSubject) \o <<Spaces1, Cls("any", 0, Unbounded, FALSE, 0)>>
         \o Lits(WPresent) \o <<Spaces1>> \o Lits(WTotal),
       HeaderTail >>

TypeCodes == << <<"T", "H">>, <<"P", "R">>, <<"T", "U">>, <<"E", "S", "H">> >>

\* ^\s*(theory|practical|tutorial|total|note)\s*
summary_pattern ==
    << Bol, Spaces0,
       Alt(<< <<"t", "h", "e", "o", "r", "y">>,
              <<"p", "r", "a", "c", "t", "i", "c", "a", "l">>,
              <<"t", "u", "t", "o", "r", "i", "a", "l">>,
              <<"t", "o", "t", "a", "l">>,
              <<"n", "o", "t", "e">> >>, 1),
       Spaces0 >>

\* ^\s*\d+\s+(.+?)\s+(TH|PR|TU|ESH)\s+(\d+)\s+(\d+)\s+([\d.]+)
row_pattern ==
    << Bol, Spaces0, Cls("digit", 1, Unbounded, FALSE, 0), Spaces1,
       Cls("any", 1, Unbounded, TRUE, 1), Spaces1, Alt(TypeCodes, 2), Spaces1,
       Cls("digit", 1, Unbounded, FALSE, 3), Spaces1,
       Cls("digit", 1, Unbounded, FALSE, 4), Spaces1,
       Cls("digitdot", 1, Unbounded, FALSE, 5) >>

\* ^(TH|PR|TU|ESH)$
type_pattern == << Bol, Alt(TypeCodes, 1), Eol >>

\* \s+(\d+)\s+(\d+)\s+([\d.]+)
OverallTail ==
    << Spaces1, Cls("digit", 1, Unbounded, FALSE, 1), Spaces1,
       Cls("digit", 1, Unbounded, FALSE, 2), Spaces1,
       Cls("digitdot", 1, Unbounded, FALSE, 3) >>

overall_patterns == << Lits(WTotal) \o OverallTail, Lits(WOverall) \o OverallTail >>

\* the first pattern of pats, in order, that re.search finds in s: its
\* index and match, or index 0
RECURSIVE FirstSearch(_, _, _, _)
FirstSearch(pats, s, ic, k) ==
    IF k > Len(pats) THEN [idx |-> 0, m |-> NoMatch]
    ELSE LET m == ReSearch(pats[k], s, ic)
         IN  IF m.ok THEN [idx |-> k, m |-> m] ELSE FirstSearch(pats, s, ic, k + 1)

(***************************************************************************)
(* The steps of extract_attendance_data as functions of their inputs.      *)
(***************************************************************************)
\* _get_empty_result()
GetEmptyResult ==
    [student_name |-> Unknown, subjects |-> << >>,
     overall |-> [Present |-> 0, Total |-> 0, Percentage |-> Zero]]

\* text += extracted_text + "\n" for every page with text
RECURSIVE PagesText(_)
PagesText(pages) ==
    IF Len(pages) = 0 THEN << >>
    ELSE (IF Len(Head(pages)) > 0 THEN Head(pages) \o <<"\n">> ELSE << >>)
           \o PagesText(Tail(pages))

\* the student name: group 1 of the first pattern that matches, stripped
StudentName(txt) ==
    LET f == FirstSearch(student_name_patterns, txt, TRUE, 1)
    IN  IF f.idx = 0 THEN Unknown ELSE Strip(Group(txt, f.m, 1))

\* the 0-based index of the first line that pattern pat matches, or -1
FirstLine(pat, lns) ==
    LET hits == {k \in 1..Len(lns) : ReSearch(pat, lns[k], TRUE).ok}
    IN  IF hits = {} THEN -1 ELSE (CHOOSE x \in hits : \A y \in hits : x <= y) - 1

\* start_idx: the line after the first line matched by the first pattern
\* that matches a line, 0 when none does
RECURSIVE StartIdx(_, _)
\* the line after the first line that any of the patterns matches
StartIdxEarliest(lns, k) ==
    LET hits == {n \in 1..Len(lns) :
                   \E q \in 1..Len(start_patterns) : ReSearch(start_patterns[q], lns[n], TRUE).ok}
    IN  IF hits = {} THEN 0 ELSE CHOOSE x \in hits : \A y \in hits : x <= y

StartIdx(lns, k) ==
    IF k > Len(start_patterns) THEN 0
    ELSE LET at == FirstLine(start_patterns[k], lns)
         IN  IF at >= 0 THEN at + 1 ELSE StartIdx(lns, k + 1)

\* the line is a summary row, at which the scan stops
IsSummary(line) == ReMatch(summary_pattern, line, TRUE).ok

Row(subject, type, present, total) ==
    [Subject |-> subject, Type |-> type, Present |-> present, Total |-> total,
     Percentage |-> Percentage(present, total)]

NoRow == [kind |-> "none", row |-> Row(<< >>, << >>, 0, 0)]

ErrRow == [kind |-> "error", row |-> Row(<< >>, << >>, 0, 0)]

\* a structured tier that discards a row whose total is 0
RegexTierDropsZero(line) ==
    LET m == ReSearch(row_pattern, line, FALSE)
    IN  IF m.ok /\ ParseInt(Group(line, m, 4)) > 0
        THEN [kind |-> "row",
              row |-> Row(Strip(Group(line, m, 1)), Strip(Group(line, m, 2)),
                          ParseInt(Group(line, m, 3)), ParseInt(Group(line, m, 4)))]
        ELSE NoRow

\* the structured tier: the row of a line that row_pattern matches
RegexTier(line) ==
    LET m == ReSearch(row_pattern, line, FALSE)
    IN  IF m.ok
        THEN [kind |-> "row",
              row |-> Row(Strip(Group(line, m, 1)), Strip(Group(line, m, 2)),
                          ParseInt(Group(line, m, 3)), ParseInt(Group(line, m, 4)))]
        ELSE NoRow

\* subject_type after "for part in parts": the last part that is a type
\* code, or the empty string
RECURSIVE SubjectType(_, _, _)
SubjectType(parts, k, found) ==
    IF k > Len(parts) THEN found
    ELSE SubjectType(parts, k + 1,
                     IF ReMatch(type_pattern, Strip(parts[k]), FALSE).ok
                     THEN Strip(parts[k]) ELSE found)

\* parts.index(x), 0-based, where x is in parts
IndexOf(parts, x) == (CHOOSE k \in 1..Len(parts) :
                        parts[k] = x /\ \A h \in 1..(k - 1) : parts[h] # x) - 1

\* for j in range(type_index + 1, len(parts)): the first digit part that is
\* followed by a digit part gives present and total; int() of a digit part
\* met on the way may raise ValueError
RECURSIVE ScanCounts(_, _, _, _)
ScanCounts(parts, j, subject, type) ==
    IF j >= Len(parts) THEN NoRow
    ELSE IF IsDigitStr(Strip(parts[j + 1]))
    THEN IF ~IntOk(parts[j + 1]) THEN ErrRow
         ELSE IF j + 1 < Len(parts) /\ IsDigitStr(Strip(parts[j + 2]))
         THEN IF ~IntOk(parts[j + 2]) THEN ErrRow
              ELSE [kind |-> "row",
                    row |-> Row(subject, type, ParseInt(parts[j + 1]), ParseInt(parts[j + 2]))]
         ELSE ScanCounts(parts, j + 1, subject, type)
    ELSE ScanCounts(parts, j + 1, subject, type)

\* a token tier that takes the first digit part after the type as present
\* and the next digit part after it as total
TokenTierApart(parts) ==
    LET types == {k \in 1..Len(parts) : \E q \in 1..4 :
                    parts[k] = <<<<"T", "H">>, <<"P", "R">>, <<"T", "U">>, <<"E", "S", "H">>>>[q]}
    IN  IF types = {} THEN [kind |-> "none", row |-> Row(<< >>, << >>, 0, 0)]
        ELSE LET t    == CHOOSE x \in types : \A y \in types : x <= y
                 nums == {k \in (t + 1)..Len(parts) :
                            Len(parts[k]) > 0 /\ \A h \in 1..Len(parts[k]) : IsDigitChar(parts[k][h])}
             IN  IF Cardinality(nums) < 2 THEN [kind |-> "none", row |-> Row(<< >>, << >>, 0, 0)]
                 ELSE [kind |-> "row",
                       row |-> Row(Strip(Join(SubSeq(parts, 2, t - 1), <<" ">>)), parts[t],
                                   DigitsVal(parts[Nth(nums, 1)], 0),
                                   DigitsVal(parts[Nth(nums, 2)], 0))]

\* the token tier: the row of a line split into five or more parts
TokenTier(parts) ==
    LET subject_type == SubjectType(parts, 1, << >>) IN
    IF subject_type = << >> THEN NoRow
    ELSE IF ~\E k \in 1..Len(parts) : parts[k] = subject_type THEN ErrRow
    ELSE LET type_index == IndexOf(parts, subject_type)
             subject_name == Strip(Join(Slice(parts, 1, type_index), <<" ">>))
         IN  ScanCounts(parts, type_index + 1, subject_name, subject_type)

\* the body of the try block for one stripped, non-blank line that is not
\* a summary row: a row, nothing, or an error that skips the line
ParseLine(line) ==
    LET parts == ReSplitWide(line)
        first == IF Len(parts) < 4 THEN RegexTier(line) ELSE NoRow
    IN  IF first.kind = "row" THEN first
        ELSE IF Len(parts) >= 5 THEN TokenTier(parts)
        ELSE NoRow

RECURSIVE SumOf(_, _)
\* sum(item[field] for item in data)
SumOf(rows, field) ==
    IF Len(rows) = 0 THEN 0 ELSE Head(rows)[field] + SumOf(Tail(rows), field)

\* the overall summary computed from the rows
ComputedOverall(rows) ==
    LET total_present == SumOf(rows, "Present")
        total_classes == SumOf(rows, "Total")
    IN  [Present |-> total_present, Total |-> total_classes,
         Percentage |-> Percentage(total_present, total_classes)]

(***************************************************************************)
(* The documents of the model: every page is one of these texts.           *)
(***************************************************************************)
\* an identity line of the simplest format, with a parenthesised suffix
LnName == WName \o <<" ", ":", " ", "A", "l", "(", "x", ")">>

\* an identity line of the alternative format, without a parenthesis
LnStudent == <<"S", "t", "u", "d", "e", "n", "t", " ">> \o WName \o <<" ", ":", " ", "B", "o">>

\* an identity line of the common format, shaped as in the repository's test
LnReport == WReport \o <<" ", ":", " ", "A", "l", " ", "B", "(", "S", ")">>

\* the table header of the common format
LnHeader ==
    <<"S", "r", "N", "o", " ">> \o WSubject \o <<" ">> \o WSubject \o <<" ">> \o WType
      \o <<" ">> \o WPresent \o <<" ">> \o WTotal

\* a data line with single spaces; its printed percentage is not 9/24
LnRowTight == <<"1", " ", "P", " ", "T", "H", " ", "9", " ", "2", "4", " ", "9", "9">>

\* a data line with two spaces between all fields; its printed percentage
\* is not 2/3
LnRowWide ==
    <<"2", " ", " ", "M", " ", "q", " ", " ", "P", "R", " ", " ", "2", " ", " ", "3",
      " ", " ", "7", "5">>

\* a data line with one or two spaces between its fields
LnRowMixed ==
    <<"1", " ", " ", "P", " ", " ", "T", "H", " ", "9", " ", " ", "2", "4", " ",
      "3", "7", ".", "5">>

\* a data line whose total is 0, single spaces
LnZeroTight == <<"3", " ", "P", " ", "T", "U", " ", "0", " ", "0", " ", "0">>

\* a data line whose total is 0, two spaces
LnZeroWide ==
    <<"3", " ", " ", "P", " ", " ", "T", "U", " ", " ", "0", " ", " ", "0", " ", " ", "0">>

\* a line with nothing but spaces between the serial number and the type
LnNoSubjTight == <<"1", " ", " ", " ", "T", "H", " ", "5", " ", "1", "0", " ", "5", "0">>

\* a line whose second token is the type code
LnNoSubjWide ==
    <<"1", " ", " ", "T", "H", " ", " ", "5", " ", " ", "1", "0", " ", " ", "5", "0">>

\* a line whose present token is a digit that int() rejects
LnBadDigit ==
    <<"1", " ", " ", "P", " ", " ", "T", "H", " ", " ", SuperTwo, " ", " ", "4",
      " ", " ", "5", "0">>

\* a session-type summary line
LnTheory == <<"T", "h", "e", "o", "r", "y", " ", "5", " ", "1", "0", " ", "5", "0">>

\* an aggregate line; its printed percentage is not 7/12
LnTotal == WTotal \o <<" ", "7", " ", "1", "2", " ", "6", "0">>

\* an aggregate line whose percentage token is not a number
LnTotalBad == WTotal \o <<" ", "7", " ", "1", "2", " ", "1", ".", "2", ".", "3">>

\* an aggregate line of the alternative format
LnOverall == WOverall \o <<" ", "3", " ", "4", " ", "7", "5">>

\* a line of spaces
LnBlank == <<" ", " ">>

\* a line no pattern matches
LnJunk == <<"j", "u", "n", "k">>

\* a table header of the alternative format
LnHeaderAlt ==
    <<"S", "r", ".", " ", "N", "o", ".", " ">> \o WSubject \o <<" ">> \o WPresent
      \o <<" ">> \o WTotal

\* a table header of the simpler format
LnHeaderSimple == WSubject \o <<" ">> \o WType \o <<" ">> \o WPresent \o <<" ">> \o WTotal

\* a data line with a token that is not a number between two numbers
LnGapWide ==
    <<"1", " ", " ", "P", " ", " ", "T", "H", " ", " ", "5", " ", " ", "x", " ", " ",
      "7", " ", " ", "9">>

\* a data line with a token that is not a number after the type code
LnLeadGap ==
    <<"1", " ", " ", "P", " ", " ", "T", "H", " ", " ", "x", " ", " ", "5", " ", " ", "7">>

\* a header of the simpler format, a data line, then a header of the
\* alternative format
PgHeaders == LnHeaderSimple \o <<"\n">> \o LnRowWide \o <<"\n">> \o LnHeaderAlt

\* a header, a data line with mixed spacing and a closing line
PgTable == LnHeader \o <<"\n">> \o LnRowMixed \o <<"\n">> \o LnTotal

\* page.extract_text() of a page: one of the texts above, or no text
PageTexts ==
    { << >>, LnName, LnStudent, LnReport, LnHeader, LnRowTight, LnRowWide, LnRowMixed,
      LnZeroTight, LnZeroWide, LnNoSubjTight, LnNoSubjWide, LnBadDigit, LnTheory,
      LnTotal, LnTotalBad, LnOverall, LnBlank, LnJunk, PgTable,
      LnHeaderAlt, LnHeaderSimple, LnGapWide, LnLeadGap, PgHeaders }

\* the sequences of at most n pages
RECURSIVE PageSeqs(_)
PageSeqs(n) ==
    IF n = 0 THEN { << >> }
    ELSE LET shorter == PageSeqs(n - 1)
         IN  shorter \cup { Append(q, t) : q \in {x \in shorter : Len(x) = n - 1}, t \in PageTexts }

(***************************************************************************)
(* State.                                                                  *)
(***************************************************************************)
VARIABLES
    pdf,            \* the argument: [opens, pages]; pdfplumber.open raises when ~opens
    pc,             \* the position in extract_attendance_data
    text,           \* the text of all pages
    student_name,
    lines,          \* text.split('\n')
    start_idx,
    i,              \* the loop variable of the row scan, 0-based
    data,           \* the rows appended so far
    overall,
    result,         \* the returned dictionary
    current_present,    \* the arguments of calculate_classes_needed
    current_total,
    target_percentage,
    cpc,            \* the position in calculate_classes_needed
    classes_needed, \* its return value
    upcoming_classes,   \* the fourth argument of calculate_classes_can_miss
    mpc,            \* the position in calculate_classes_can_miss
    classes_can_miss,   \* its return value
    sessions_attended,  \* the upcoming classes held so far that were attended
    sessions_missed     \* the upcoming classes held so far that were missed

extractVars == <<pdf, pc, text, student_name, lines, start_idx, i, data, overall, result>>

calcVars == <<current_present, current_total, target_percentage, cpc, classes_needed,
              upcoming_classes, mpc, classes_can_miss, sessions_attended, sessions_missed>>

vars == <<pdf, pc, text, student_name, lines, start_idx, i, data, overall, result,
          current_present, current_total, target_percentage, cpc, classes_needed,
          upcoming_classes, mpc, classes_can_miss, sessions_attended, sessions_missed>>

NoOverall == [Present |-> 0, Total |-> 0, Percentage |-> Zero]

CalcIdle ==
    /\ current_present = 0
    /\ current_total = 0
    /\ target_percentage = 0
    /\ cpc = "idle"
    /\ classes_needed = [inf |-> FALSE, n |-> 0]
    /\ upcoming_classes = 0
    /\ mpc = "idle"
    /\ classes_can_miss = 0
    /\ sessions_attended = 0
    /\ sessions_missed = 0

ExtractIdle ==
    /\ pdf = [opens |-> TRUE, pages |-> << >>]
    /\ pc = "idle"
    /\ text = << >>
    /\ student_name = Unknown
    /\ lines = << >>
    /\ start_idx = 0
    /\ i = 0
    /\ data = << >>
    /\ overall = NoOverall
    /\ result = GetEmptyResult

\* a call of extract_attendance_data on a document of at most MaxPages
\* pages, or on a file that pdfplumber cannot open
Init ==
    /\ pdf \in {[opens |-> TRUE, pages |-> q] : q \in PageSeqs(MaxPages)}
                 \cup {[opens |-> FALSE, pages |-> << >>]}
    /\ pc = "open"
    /\ text = << >>
    /\ student_name = Unknown
    /\ lines = << >>
    /\ start_idx = 0
    /\ i = 0
    /\ data = << >>
    /\ overall = NoOverall
    /\ result = GetEmptyResult
    /\ CalcIdle

(***************************************************************************)
(* extract_attendance_data, one action per step.                           *)
(***************************************************************************)
\* pdfplumber.open raises: control passes to the handler
OpenFails ==
    /\ pc = "open"
    /\ ~pdf.opens
    /\ pc' = "except"
    /\ UNCHANGED <<pdf, text, student_name, lines, start_idx, i, data, overall, result>>
    /\ UNCHANGED calcVars

\* the text of the pages is collected
ReadPages ==
    /\ pc = "open"
    /\ pdf.opens
    /\ text' = PagesText(pdf.pages)
    /\ pc' = "check"
    /\ UNCHANGED <<pdf, student_name, lines, start_idx, i, data, overall, result>>
    /\ UNCHANGED calcVars

\* if not text.strip(): return _get_empty_result()
NoText ==
    /\ pc = "check"
    /\ Strip(text) = << >>
    /\ result' = GetEmptyResult
    /\ pc' = "done"
    /\ UNCHANGED <<pdf, text, student_name, lines, start_idx, i, data, overall>>
    /\ UNCHANGED calcVars

\* the student name, the lines and the start of the table
Locate ==
    /\ pc = "check"
    /\ Strip(text) # << >>
    /\ student_name' = StudentName(text)
    /\ lines' = Split(text, "\n")
    /\ start_idx' = StartIdx(lines', 1)
    /\ i' = start_idx'
    /\ data' = << >>
    /\ pc' = "scan"
    /\ UNCHANGED <<pdf, text, overall, result>>
    /\ UNCHANGED calcVars

\* the line the scan is at, stripped
CurLine == Strip(lines[i + 1])

\* a blank line is skipped
SkipBlank ==
    /\ pc = "scan"
    /\ i < Len(lines)
    /\ CurLine = << >>
    /\ i' = i + 1
    /\ UNCHANGED <<pdf, pc, text, student_name, lines, start_idx, data, overall, result>>
    /\ UNCHANGED calcVars

\* a summary row ends the scan
StopAtSummary ==
    /\ pc = "scan"
    /\ i < Len(lines)
    /\ CurLine # << >>
    /\ IsSummary(CurLine)
    /\ pc' = "overall"
    /\ UNCHANGED <<pdf, text, student_name, lines, start_idx, i, data, overall, result>>
    /\ UNCHANGED calcVars

\* a line that parses as a row is appended
AppendRow ==
    /\ pc = "scan"
    /\ i < Len(lines)
    /\ CurLine # << >>
    /\ ~IsSummary(CurLine)
    /\ ParseLine(CurLine).kind = "row"
    /\ data' = Append(data, ParseLine(CurLine).row)
    /\ i' = i + 1
    /\ UNCHANGED <<pdf, pc, text, student_name, lines, start_idx, overall, result>>
    /\ UNCHANGED calcVars

\* a line that is not a row is passed over
SkipLine ==
    /\ pc = "scan"
    /\ i < Len(lines)
    /\ CurLine # << >>
    /\ ~IsSummary(CurLine)
    /\ ParseLine(CurLine).kind = "none"
    /\ i' = i + 1
    /\ UNCHANGED <<pdf, pc, text, student_name, lines, start_idx, data, overall, result>>
    /\ UNCHANGED calcVars

\* except (ValueError, IndexError): continue
SkipInvalid ==
    /\ pc = "scan"
    /\ i < Len(lines)
    /\ CurLine # << >>
    /\ ~IsSummary(CurLine)
    /\ ParseLine(CurLine).kind = "error"
    /\ i' = i + 1
    /\ UNCHANGED <<pdf, pc, text, student_name, lines, start_idx, data, overall, result>>
    /\ UNCHANGED calcVars

\* the scan runs off the last line
ScanEnd ==
    /\ pc = "scan"
    /\ i >= Len(lines)
    /\ pc' = "overall"
    /\ UNCHANGED <<pdf, text, student_name, lines, start_idx, i, data, overall, result>>
    /\ UNCHANGED calcVars

\* the first aggregate pattern found in the text
OverallMatch == FirstSearch(overall_patterns, text, FALSE, 1)

\* an aggregate line whose percentage is recomputed from its two counts
OverallRecomputed ==
    /\ pc = "overall"
    /\ OverallMatch.idx > 0
    /\ FloatOk(Group(text, OverallMatch.m, 3))
    /\ overall' = [Present |-> ParseInt(Group(text, OverallMatch.m, 1)),
                   Total |-> ParseInt(Group(text, OverallMatch.m, 2)),
                   Percentage |-> Percentage(ParseInt(Group(text, OverallMatch.m, 1)),
                                             ParseInt(Group(text, OverallMatch.m, 2)))]
    /\ pc' = "return"
    /\ UNCHANGED <<pdf, text, student_name, lines, start_idx, i, data, result>>
    /\ UNCHANGED calcVars

\* an aggregate line supplies the overall summary
OverallFromText ==
    /\ pc = "overall"
    /\ OverallMatch.idx > 0
    /\ FloatOk(Group(text, OverallMatch.m, 3))
    /\ overall' = [Present |-> ParseInt(Group(text, OverallMatch.m, 1)),
                   Total |-> ParseInt(Group(text, OverallMatch.m, 2)),
                   Percentage |-> ParseFloat(Group(text, OverallMatch.m, 3))]
    /\ pc' = "return"
    /\ UNCHANGED <<pdf, text, student_name, lines, start_idx, i, data, result>>
    /\ UNCHANGED calcVars

\* float() of the aggregate line's percentage raises ValueError
OverallFails ==
    /\ pc = "overall"
    /\ OverallMatch.idx > 0
    /\ ~FloatOk(Group(text, OverallMatch.m, 3))
    /\ pc' = "except"
    /\ UNCHANGED <<pdf, text, student_name, lines, start_idx, i, data, overall, result>>
    /\ UNCHANGED calcVars

\* no aggregate line: the overall summary is computed from the rows
OverallFromRows ==
    /\ pc = "overall"
    /\ OverallMatch.idx = 0
    /\ overall' = ComputedOverall(data)
    /\ pc' = "return"
    /\ UNCHANGED <<pdf, text, student_name, lines, start_idx, i, data, result>>
    /\ UNCHANGED calcVars

\* return {"student_name": ..., "subjects": data, "overall": overall}
Return ==
    /\ pc = "return"
    /\ result' = [student_name |-> student_name, subjects |-> data, overall |-> overall]
    /\ pc' = "done"
    /\ UNCHANGED <<pdf, text, student_name, lines, start_idx, i, data, overall>>
    /\ UNCHANGED calcVars

\* a handler that keeps what was parsed before the failure
ExceptKeepsRows ==
    /\ pc = "except"
    /\ result' = [student_name |-> student_name, subjects |-> data, overall |-> NoOverall]
    /\ pc' = "done"
    /\ UNCHANGED <<pdf, text, student_name, lines, start_idx, i, data, overall>>
    /\ UNCHANGED calcVars

\* except Exception: return _get_empty_result()
Except ==
    /\ pc = "except"
    /\ result' = GetEmptyResult
    /\ pc' = "done"
    /\ UNCHANGED <<pdf, text, student_name, lines, start_idx, i, data, overall>>
    /\ UNCHANGED calcVars

Next ==
    \/ OpenFails
    \/ ReadPages
    \/ NoText
    \/ Locate
    \/ SkipBlank
    \/ StopAtSummary
    \/ AppendRow
    \/ SkipLine
    \/ SkipInvalid
    \/ ScanEnd
    \/ OverallFromText
    \/ OverallFails
    \/ OverallFromRows
    \/ Return
    \/ Except

Spec == Init /\ [][Next]_vars

(***************************************************************************)
(* calculate_classes_needed.  The target is a whole percentage, as in the  *)
(* tests and in the ranges 0..99 and 0..100 of the properties below.       *)
(***************************************************************************)
\* the largest result the safety check lets through
MaxPlausible == 1000

\* a finite return value
Finite(n) == [inf |-> FALSE, n |-> n]

\* 0 returned in place of the sentinel
NoSentinel == [inf |-> FALSE, n |-> 0]

\* float('inf')
Infinity == [inf |-> TRUE, n |-> 0]

(***************************************************************************)
(* current_percentage = (current_present / current_total) * 100 in IEEE    *)
(* 754 double arithmetic.  A positive double is [m, exp]: m holds its 53   *)
(* significant bits, most significant first, as the leading bit 1 and four *)
(* digits of 13 bits, and its value is                                     *)
(*   (2^52 + m[2] * 2^39 + m[3] * 2^26 + m[4] * 2^13 + m[5]) * 2^(exp-52). *)
(***************************************************************************)
\* the number of significant bits of a double
Precision == 53

\* the size of a digit, and the number of digits after the leading bit
Base == 2^13

Places == (Precision - 1) \div 13

\* the remainder after k digits of the expansion of r / b in digits of
\* size Base, for 0 <= r < b
RECURSIVE Rem(_, _, _)
Rem(r, b, k) == IF k = 0 THEN r ELSE (Rem(r, b, k - 1) * Base) % b

\* the k-th digit of that expansion
QuotientDigit(r, b, k) == (Rem(r, b, k - 1) * Base) \div b

\* m plus one in the last place; carry is 1 when the sum is 2^53, and m is
\* then the sum halved
Increment(m) ==
    LET open == {k \in 2..Len(m) : m[k] < Base - 1}
    IN  IF open = {}
        THEN [m |-> [k \in 1..Len(m) |-> IF k = 1 THEN 1 ELSE 0], carry |-> 1]
        ELSE LET j == CHOOSE x \in open : \A y \in open : x >= y
             IN  [m |-> [k \in 1..Len(m) |->
                           IF k < j THEN m[k] ELSE IF k = j THEN m[k] + 1 ELSE 0],
                  carry |-> 0]

\* round to nearest, ties to even: kept are the bits kept, up says that
\* what was dropped is more than half a unit in the last place, half that
\* it is exactly half
RoundNearestEven(kept, up, half) ==
    IF up \/ (half /\ kept[Len(kept)] % 2 = 1) THEN Increment(kept)
    ELSE [m |-> kept, carry |-> 0]

\* present / total, correctly rounded, for present > 0 and total > 0: the
\* quotient is a / b * 2^exp with 1 <= a / b < 2
TrueDivide(present, total) ==
    LET big  == present >= total
        sh   == IF big
                THEN CHOOSE j \in 0..16 : total * 2^j <= present /\ present < total * 2^(j + 1)
                ELSE CHOOSE k \in 1..16 : present * 2^k >= total /\ present * 2^(k - 1) < total
        a    == IF big THEN present ELSE present * 2^sh
        b    == IF big THEN total * 2^sh ELSE total
        kept == <<1>> \o [k \in 1..Places |-> QuotientDigit(a - b, b, k)]
        left == Rem(a - b, b, Places)
        r    == RoundNearestEven(kept, 2 * left > b, 2 * left = b)
    IN  [m |-> r.m, exp |-> (IF big THEN sh ELSE -sh) + r.carry]

\* the carry out of place k when every digit of m is multiplied by 100
RECURSIVE CarryOut(_, _)
CarryOut(m, k) ==
    IF k > Len(m) THEN 0 ELSE (100 * m[k] + CarryOut(m, k + 1)) \div Base

\* x * 100, correctly rounded.  The exact product has 100 to 199 in its
\* leading place, that is 6 or 7 bits more than a double holds
Times100(x) ==
    LET p    == [k \in 1..Len(x.m) |->
                   IF k = 1 THEN 100 * x.m[1] + CarryOut(x.m, 2)
                   ELSE (100 * x.m[k] + CarryOut(x.m, k + 1)) % Base]
        s    == IF p[1] >= 128 THEN 7 ELSE 6
        kept == [k \in 1..Len(p) |->
                   IF k = 1 THEN p[1] \div 2^s
                   ELSE (p[k - 1] % 2^s) * (Base \div 2^s) + p[k] \div 2^s]
        left == p[Len(p)] % 2^s
        r    == RoundNearestEven(kept, 2 * left > 2^s, 2 * left = 2^s)
    IN  [m |-> r.m, exp |-> x.exp + s + r.carry]

\* the whole part of a positive double below 2^27
WholePart(x) ==
    IF x.exp < 0 THEN 0
    ELSE IF x.exp <= 13 THEN 2^x.exp + x.m[2] \div 2^(13 - x.exp)
    ELSE 2^x.exp + x.m[2] * 2^(x.exp - 13) + x.m[3] \div 2^(26 - x.exp)

\* current_percentage < target for current_percentage =
\* (present / total) * 100, total > 0 and a whole target: a positive double
\* is below a whole number exactly when its whole part is
PercentageBelow(present, total, target) ==
    IF present = 0 THEN 0 < target
    ELSE WholePart(Times100(TrueDivide(present, total))) < target

\* the comparison with > in place of >=
AboveOnly(present, total, target) == 100 * present > target * total

\* current_percentage >= target_percentage
AtOrAbove(present, total, target) == ~PercentageBelow(present, total, target)

\* the quotient rounded down
RoundedDown(n, d) == n \div d

\* math.ceil(n / d) for d > 0: the quotient is a whole number or at least
\* 1/100 away from one, so the ceiling of the double is the ceiling of the
\* exact quotient
Ceil(n, d) == -((-n) \div d)

calculate_classes_needed(present, total, target) ==
    IF total = 0 THEN Finite(0)
    ELSE IF AtOrAbove(present, total, target) THEN Finite(0)
    ELSE IF target = 100 /\ ~AtOrAbove(present, total, 100) THEN Infinity
    ELSE IF 100 - target = 0 THEN Infinity
    ELSE LET needed == Ceil(target * total - 100 * present, 100 - target)
         IN  IF needed < 0 \/ needed > MaxPlausible THEN Finite(0) ELSE Finite(needed)

\* a call of calculate_classes_needed on counts up to MaxCount and a target
\* between 0 and 100
CalcInit ==
    /\ current_present \in 0..MaxCount
    /\ current_total \in 0..MaxCount
    /\ target_percentage \in 0..100
    /\ cpc = "call"
    /\ classes_needed = Finite(0)
    /\ upcoming_classes = 0
    /\ mpc = "idle"
    /\ classes_can_miss = 0
    /\ sessions_attended = 0
    /\ sessions_missed = 0
    /\ ExtractIdle

CallClassesNeeded ==
    /\ cpc = "call"
    /\ classes_needed' = calculate_classes_needed(current_present, current_total,
                                                  target_percentage)
    /\ cpc' = "returned"
    /\ UNCHANGED <<current_present, current_total, target_percentage>>
    /\ UNCHANGED <<upcoming_classes, mpc, classes_can_miss, sessions_attended, sessions_missed>>
    /\ UNCHANGED extractVars

CalcNext == CallClassesNeeded

CalcSpec == CalcInit /\ [][CalcNext]_vars

(***************************************************************************)
(* calculate_classes_can_miss.  The target is a whole percentage, as for   *)
(* calculate_classes_needed.                                               *)
(***************************************************************************)
Min(a, b) == IF a <= b THEN a ELSE b

Max(a, b) == IF a >= b THEN a ELSE b

\* the comparison on the percentage rounded up to a whole number
RoundedBelow(present, total, target) == Ceil(100 * present, total) < target

\* current_percentage < target_percentage for the double
\* current_percentage = (present / total) * 100, total > 0: true of 29 of 50
\* with target 58, where the double is 57.99999999999999
BelowTarget(present, total, target) == PercentageBelow(present, total, target)

\* math.floor(n / d) for d > 0
Floor(n, d) == n \div d

\* the result without the limits
Unclamped(max_skip, upcoming) == max_skip

\* max(0, min(max_skip, upcoming_classes))
Clamp(max_skip, upcoming) == Max(0, Min(max_skip, upcoming))

\* the share of the attended classes above the target
MaxSkipOfAttended(future_present, future_total, target) ==
    (100 * future_present - target * future_present) \div 100

\* math.floor(future_present - target * future_total / 100): the subtrahend
\* is a whole number or at least 1/100 away from one, so the floor of the
\* double is the floor of the exact difference
MaxSkip(future_present, future_total, target) ==
    Floor(100 * future_present - target * future_total, 100)

calculate_classes_can_miss(present, total, target, upcoming) ==
    IF total = 0 THEN upcoming
    ELSE IF BelowTarget(present, total, target) THEN 0
    ELSE IF upcoming <= 0 THEN 0
    ELSE LET future_total   == total + upcoming
             future_present == present + upcoming
         IN  Clamp(MaxSkip(future_present, future_total, target), upcoming)

\* a call of calculate_classes_can_miss on counts up to MaxCount, a target
\* between 0 and 100 and up to MaxUpcoming upcoming classes; the caller may
\* pass a negative number of upcoming classes
MissInit ==
    /\ current_present \in 0..MaxCount
    /\ current_total \in 0..MaxCount
    /\ target_percentage \in 0..100
    /\ upcoming_classes \in -1..MaxUpcoming
    /\ mpc = "call"
    /\ classes_can_miss = 0
    /\ sessions_attended = 0
    /\ sessions_missed = 0
    /\ cpc = "idle"
    /\ classes_needed = Finite(0)
    /\ ExtractIdle

CallClassesCanMiss ==
    /\ mpc = "call"
    /\ classes_can_miss' = calculate_classes_can_miss(current_present, current_total,
                                                      target_percentage, upcoming_classes)
    /\ mpc' = "returned"
    /\ UNCHANGED <<current_present, current_total, target_percentage, upcoming_classes>>
    /\ UNCHANGED <<cpc, classes_needed, sessions_attended, sessions_missed>>
    /\ UNCHANGED extractVars

MissNext == CallClassesCanMiss

MissSpec == MissInit /\ [][MissNext]_vars

(***************************************************************************)
(* The upcoming classes after a call of calculate_classes_can_miss: the    *)
(* student attends or misses them one by one, and misses no more of them   *)
(* than the function returned.                                             *)
(***************************************************************************)
\* a call with at least one upcoming class, on counts up to MaxCount with
\* current_present <= current_total and a target between 0 and 100; whether
\* the student is below the target is for line 63 to decide
WalkInit ==
    /\ current_total \in 1..MaxCount
    /\ current_present \in 0..current_total
    /\ target_percentage \in 0..100
    /\ upcoming_classes \in 1..MaxUpcoming
    /\ mpc = "call"
    /\ classes_can_miss = 0
    /\ sessions_attended = 0
    /\ sessions_missed = 0
    /\ cpc = "idle"
    /\ classes_needed = Finite(0)
    /\ ExtractIdle

\* the next upcoming class is held and attended: it counts in
\* future_present and in future_total
AttendSession ==
    /\ mpc = "returned"
    /\ sessions_attended + sessions_missed < upcoming_classes
    /\ sessions_attended' = sessions_attended + 1
    /\ UNCHANGED <<current_present, current_total, target_percentage, upcoming_classes,
                   mpc, classes_can_miss, sessions_missed, cpc, classes_needed>>
    /\ UNCHANGED extractVars

\* the next upcoming class is held and missed, one of the at most
\* classes_can_miss classes the student skips: it counts in future_total only
MissSession ==
    /\ mpc = "returned"
    /\ sessions_attended + sessions_missed < upcoming_classes
    /\ sessions_missed < classes_can_miss
    /\ sessions_missed' = sessions_missed + 1
    /\ UNCHANGED <<current_present, current_total, target_percentage, upcoming_classes,
                   mpc, classes_can_miss, sessions_attended, cpc, classes_needed>>
    /\ UNCHANGED extractVars

WalkNext == CallClassesCanMiss \/ AttendSession \/ MissSession

WalkSpec == WalkInit /\ [][WalkNext]_vars

(***************************************************************************)
(* Properties of extract_attendance_data.                                  *)
(***************************************************************************)
\* str.split(): the maximal runs of characters that are not whitespace
Fields(s) ==
    LET starts == {k \in 1..Len(s) :
                     s[k] \notin WhiteSpace /\ (k = 1 \/ s[k - 1] \in WhiteSpace)}
        ends   == {k \in 1..Len(s) :
                     s[k] \notin WhiteSpace /\ (k = Len(s) \/ s[k + 1] \in WhiteSpace)}
    IN  [j \in 1..Cardinality(starts) |-> SubSeq(s, Nth(starts, j), Nth(ends, j))]

IsTypeCode(w) == \E k \in 1..Len(TypeCodes) : TypeCodes[k] = w

\* the text of the document
DocText == PagesText(pdf.pages)

\* the document has no text but whitespace
EmptyInput == pdf.opens /\ Strip(DocText) = << >>

\* the text has no identity label, no aggregate line and no type code
Unmatchable ==
    /\ pdf.opens
    /\ FirstSearch(student_name_patterns, DocText, TRUE, 1).idx = 0
    /\ FirstSearch(overall_patterns, DocText, FALSE, 1).idx = 0
    /\ \A k \in 1..Len(Fields(DocText)) : ~IsTypeCode(Fields(DocText)[k])

\* the percentage token of the aggregate line is not a number
BadAggregate ==
    LET f == FirstSearch(overall_patterns, DocText, FALSE, 1)
    IN  /\ pdf.opens
        /\ Strip(DocText) # << >>
        /\ f.idx > 0
        /\ LET tok == Group(DocText, f.m, 3)
           IN  CountOf(tok, ".") > 1 \/ \A k \in 1..Len(tok) : tok[k] = "."

\* an internal step of the extraction raises
InternalFailure == ~pdf.opens \/ BadAggregate

\* the record of an extraction that found nothing
SentinelRecord ==
    [student_name |-> <<"U", "n", "k", "n", "o", "w", "n">>,
     subjects |-> << >>,
     overall |-> [Present |-> 0, Total |-> 0, Percentage |-> [m |-> 0, e |-> 0]]]

\* C1: extract_attendance_data never raises: a call is always at a step of
\* the function or at its return, where it returns a record, and the record
\* returned for empty text, for text that matches no pattern and for an
\* input on which a step fails is exactly "Unknown", no subjects and an
\* overall of 0, 0, 0.
C1_FailSoft ==
    /\ pc \in {"open", "check", "scan", "overall", "return", "except", "done"}
    /\ pc = "scan" => i <= Len(lines)
    /\ pc = "done" =>
          /\ DOMAIN result = {"student_name", "subjects", "overall"}
          /\ (EmptyInput \/ Unmatchable \/ InternalFailure) => result = SentinelRecord

\* rows were parsed, then float() of the aggregate percentage failed and the
\* sentinel record was returned
C1_Witness ==
    /\ pc = "done"
    /\ BadAggregate
    /\ data # << >>
    /\ result = SentinelRecord


\* the rows of the returned record
Subjects == result.subjects

AllDigits(w) == Len(w) > 0 /\ \A k \in 1..Len(w) : IsDigitChar(w[k])

AllDigitDot(w) == Len(w) > 0 /\ \A k \in 1..Len(w) : IsDigitChar(w[k]) \/ w[k] = "."

\* the tokens f read <serial> <subject ...> <type code> <present> <total>
\* <percentage>, with no type code inside the subject
ShapeOk(f) ==
    /\ Len(f) >= 6
    /\ AllDigits(f[1])
    /\ IsTypeCode(f[Len(f) - 3])
    /\ \A h \in 2..(Len(f) - 4) : ~IsTypeCode(f[h])
    /\ AllDigits(f[Len(f) - 2])
    /\ AllDigits(f[Len(f) - 1])
    /\ AllDigitDot(f[Len(f)])

ShapeSubject(f) == Join(SubSeq(f, 2, Len(f) - 4), <<" ">>)

ShapeType(f) == f[Len(f) - 3]

ShapePresent(f) == DigitsVal(f[Len(f) - 2], 0)

ShapeTotal(f) == DigitsVal(f[Len(f) - 1], 0)

\* the line has the row shape with single whitespace between all tokens
TightShape(line) == Len(ReSplitWide(line)) = 1 /\ ShapeOk(Fields(line))

\* the line has the row shape with its fields two or more spaces apart
WideShape(line) == ShapeOk(ReSplitWide(line))

\* the fields of a line of either shape
ShapeFields(line) == IF TightShape(line) THEN Fields(line) ELSE ReSplitWide(line)

\* the value of the decimal d in hundredths, for d with at most two decimals
Hundredths(d) == IF d.e = 0 THEN 100 * d.m ELSE IF d.e = 1 THEN 10 * d.m ELSE d.m

\* d is present / total * 100 rounded to the nearest hundredth
IsRounded(d, present, total) ==
    /\ d.e <= 2
    /\ 2 * (10000 * present - Hundredths(d) * total) <= total
    /\ 2 * (Hundredths(d) * total - 10000 * present) <= total

\* C2 as stated: every returned row has Total > 0.
C2_TotalPositive == pc = "done" => \A k \in 1..Len(Subjects) : Subjects[k].Total > 0

\* C2 amended: a line whose parsed total is 0 is not discarded: the
\* structured tier and the token tier append it as a row with Total 0 and
\* Percentage 0, and every returned row has Total >= 0 with Percentage 0
\* when Total is 0.
C2_ZeroTotalKept ==
    /\ [](pc = "done" =>
            \A k \in 1..Len(Subjects) :
               /\ Subjects[k].Total >= 0
               /\ Subjects[k].Total = 0 => Subjects[k].Percentage = [m |-> 0, e |-> 0])
    /\ [][(/\ pc = "scan"
           /\ i < Len(lines)
           /\ TightShape(Strip(lines[i + 1])) \/ WideShape(Strip(lines[i + 1]))
           /\ ShapeTotal(ShapeFields(Strip(lines[i + 1]))) = 0)
          => data' = Append(data,
                       [Subject |-> ShapeSubject(ShapeFields(Strip(lines[i + 1]))),
                        Type |-> ShapeType(ShapeFields(Strip(lines[i + 1]))),
                        Present |-> ShapePresent(ShapeFields(Strip(lines[i + 1]))),
                        Total |-> 0,
                        Percentage |-> [m |-> 0, e |-> 0]])]_vars

\* a record with a row of the structured tier whose Total is 0 was returned
C2_Witness ==
    /\ pc = "done"
    /\ \E k \in 1..Len(Subjects) : Subjects[k].Total = 0 /\ Subjects[k].Present = 0
    /\ \E k \in 1..Len(pdf.pages) : pdf.pages[k] = LnZeroTight

\* C3 as stated: every returned row has Percentage = round(Present / Total
\* * 100, 2), which takes Total > 0.
C3_AllRowsRounded ==
    pc = "done" =>
       \A k \in 1..Len(Subjects) :
          /\ Subjects[k].Total > 0
          /\ IsRounded(Subjects[k].Percentage, Subjects[k].Present, Subjects[k].Total)

\* C3 amended: every returned row with Total > 0 has Percentage =
\* round(Present / Total * 100, 2) computed from its own counts, never the
\* percentage printed on the line; a row with Total 0 has Percentage 0.
C3_RowsRounded ==
    pc = "done" =>
       \A k \in 1..Len(Subjects) :
          IF Subjects[k].Total > 0
          THEN IsRounded(Subjects[k].Percentage, Subjects[k].Present, Subjects[k].Total)
          ELSE Subjects[k].Percentage = [m |-> 0, e |-> 0]

\* the line "2  M q  PR  2  3  75" was returned as a row with 66.67
C3_Witness ==
    /\ pc = "done"
    /\ \E k \in 1..Len(Subjects) :
          /\ Subjects[k].Present = 2
          /\ Subjects[k].Total = 3
          /\ Subjects[k].Percentage = [m |-> 6667, e |-> 2]

\* C4: every returned row has a non-empty Subject.
C4_SubjectNonEmpty == pc = "done" => \A k \in 1..Len(Subjects) : Subjects[k].Subject # << >>


\* the lines of the document's text
DocLines == Split(DocText, "\n")

IsHeaderLine(line) == \E k \in 1..Len(start_patterns) : ReSearch(start_patterns[k], line, TRUE).ok

IsClosingLine(line) == Strip(line) = << >> \/ ReMatch(summary_pattern, Strip(line), TRUE).ok

\* the text is a header line, then c - 2 >= 1 whitespace-separated data
\* lines of the row shape, then closing lines from line c on
TableUpTo(c) ==
    /\ pdf.opens
    /\ c >= 3
    /\ IsHeaderLine(DocLines[1])
    /\ \A k \in 2..(c - 1) : ShapeOk(Fields(DocLines[k]))
    /\ \A k \in c..Len(DocLines) : IsClosingLine(DocLines[k])

\* C5: for a header line followed by data lines of the row shape and then
\* closing lines, the returned rows are the data lines, one row per line in
\* order with the line's subject, type, present and total, whatever the
\* spacing of the fields.
C5_TableRows ==
    pc = "done" =>
       \A c \in 3..(Len(DocLines) + 1) :
          TableUpTo(c) =>
             /\ Len(Subjects) = c - 2
             /\ \A k \in 2..(c - 1) :
                   /\ Subjects[k - 1].Subject = ShapeSubject(Fields(DocLines[k]))
                   /\ Subjects[k - 1].Type = ShapeType(Fields(DocLines[k]))
                   /\ Subjects[k - 1].Present = ShapePresent(Fields(DocLines[k]))
                   /\ Subjects[k - 1].Total = ShapeTotal(Fields(DocLines[k]))

\* the first aggregate pattern, in the order Total, Overall, found in the text
Aggregate == FirstSearch(overall_patterns, DocText, FALSE, 1)

HasAggregate == pdf.opens /\ Aggregate.idx > 0

\* C6: overall.Present and overall.Total are the two integers captured by
\* the first aggregate pattern that matches the text, Total before Overall,
\* and the sums over the returned rows when neither matches.
C6_OverallCounts ==
    pc = "done" =>
       IF HasAggregate
       THEN /\ result.overall.Present = DigitsVal(Group(DocText, Aggregate.m, 1), 0)
            /\ result.overall.Total = DigitsVal(Group(DocText, Aggregate.m, 2), 0)
       ELSE /\ result.overall.Present = SumOf(Subjects, "Present")
            /\ result.overall.Total = SumOf(Subjects, "Total")

RECURSIVE Pow10(_)
Pow10(n) == IF n = 0 THEN 1 ELSE 10 * Pow10(n - 1)

\* the number of characters of tok after its decimal point
Decimals(tok) ==
    IF CountOf(tok, ".") = 0 THEN 0
    ELSE Len(tok) - (CHOOSE k \in 1..Len(tok) : tok[k] = ".")

\* the decimal d is the number written by tok, which has one point at most
IsPrinted(d, tok) ==
    d.m * Pow10(Decimals(tok)) =
      DigitsVal(SelectSeq(tok, LAMBDA c : c # "."), 0) * Pow10(d.e)

\* d is the percentage recomputed from the two counts
IsRecomputed(d, present, total) ==
    IF total > 0 THEN IsRounded(d, present, total) ELSE d = [m |-> 0, e |-> 0]

\* C7 as stated: overall.Percentage is always recomputed from
\* overall.Present and overall.Total.
C7_OverallRecomputed ==
    pc = "done" =>
       IsRecomputed(result.overall.Percentage, result.overall.Present, result.overall.Total)

\* C7 amended: when an aggregate line supplied Present and Total,
\* overall.Percentage is the number printed on that line, not recomputed;
\* in every other returned record it is round(Present / Total * 100, 2)
\* when Total > 0 and 0 when Total is 0.
C7_OverallPercentage ==
    pc = "done" =>
       IF HasAggregate /\ ~BadAggregate
       THEN IsPrinted(result.overall.Percentage, Group(DocText, Aggregate.m, 3))
       ELSE IsRecomputed(result.overall.Percentage, result.overall.Present,
                         result.overall.Total)

\* the line "Total 7 12 60" gave the overall summary 7, 12, 60
C7_Witness ==
    /\ pc = "done"
    /\ result.overall = [Present |-> 7, Total |-> 12, Percentage |-> [m |-> 60, e |-> 0]]

\* the first identity pattern, in the order of the source, found in the text
Identity == FirstSearch(student_name_patterns, DocText, TRUE, 1)

\* C8: student_name is the text the first matching identity pattern finds
\* after its label, up to the first "(" and stripped, so it has no "(";
\* it is "Unknown" when no pattern matches.
C8_NameFromPattern ==
    pc = "done" =>
       /\ \A k \in 1..Len(result.student_name) : result.student_name[k] # "("
       /\ result.student_name =
             IF pdf.opens /\ Identity.idx > 0
             THEN Strip(Group(DocText, Identity.m, 1))
             ELSE <<"U", "n", "k", "n", "o", "w", "n">>

\* the line reads 'Self Attendance Report : <name>(<suffix>)'
IsReportLine(line) ==
    /\ WordAt(WReport, line, 0, FALSE)
    /\ \E k \in 1..Len(line) : line[k] = ":"
    /\ \E k \in 1..Len(line) : line[k] = "("

\* the remainder of the line after its first colon, stripped
AfterColon(line) ==
    Strip(SubSeq(line, (CHOOSE k \in 1..Len(line) :
                          line[k] = ":" /\ \A h \in 1..(k - 1) : line[h] # ":") + 1,
                 Len(line)))

\* C9: for an identity line 'Self Attendance Report : <name>(<suffix>)'
\* student_name is the whole remainder of the line after the colon,
\* the parenthesised suffix included.
C9_NameKeepsSuffix ==
    (pc = "done" /\ pdf.opens /\ IsReportLine(DocLines[1]))
       => result.student_name = AfterColon(DocLines[1])

(***************************************************************************)
(* Properties of calculate_classes_needed.                                 *)
(***************************************************************************)
\* C10: calculate_classes_needed returns 0 when current_total is 0, and
\* when current_total > 0 and current_present / current_total * 100 is at
\* least target_percentage.
C10_ZeroAtTarget ==
    cpc = "returned" =>
       ((current_total = 0 \/ 100 * current_present >= target_percentage * current_total)
          => classes_needed = [inf |-> FALSE, n |-> 0])

\* 10 of 12 (83.33 percent) with target 75 returned 0
C10_Witness ==
    /\ cpc = "returned"
    /\ current_present = 10
    /\ current_total = 12
    /\ target_percentage = 75
    /\ classes_needed = [inf |-> FALSE, n |-> 0]

\* C11: with target_percentage 100, current_total > 0 and
\* current_present < current_total, calculate_classes_needed returns the
\* infinity sentinel, not a finite number.
C11_InfinityAtHundred ==
    (/\ cpc = "returned"
     /\ target_percentage = 100
     /\ current_total > 0
     /\ current_present < current_total)
        => classes_needed = [inf |-> TRUE, n |-> 0]

\* 9 of 12 with target 100 returned the sentinel
C11_Witness ==
    /\ cpc = "returned"
    /\ current_present = 9
    /\ current_total = 12
    /\ target_percentage = 100
    /\ classes_needed.inf

\* attending the next n classes reaches the target
Reaches(n) ==
    100 * (current_present + n) >= target_percentage * (current_total + n)

\* n is the least number of consecutive classes that reaches the target
LeastReaching(n) == n >= 0 /\ Reaches(n) /\ \A m \in 0..(n - 1) : ~Reaches(m)

\* the arguments C12 is about
C12_Inputs ==
    /\ cpc = "returned"
    /\ current_total > 0
    /\ current_present <= current_total
    /\ target_percentage \in 0..99

\* C12 as stated: for current_total > 0, 0 <= current_present <= current_total
\* and a target in 0..99 the result is the least n >= 0 with
\* 100 * (present + n) >= target * (total + n).
C12_LeastN ==
    C12_Inputs => ~classes_needed.inf /\ LeastReaching(classes_needed.n)

\* C12 as the code has it: on those arguments the result is that least n
\* when the least n is at most 1000, and 0 when the least n exceeds 1000.
C12_LeastNGuarded ==
    C12_Inputs =>
        /\ ~classes_needed.inf
        /\ \/ classes_needed.n <= MaxPlausible /\ LeastReaching(classes_needed.n)
           \/ /\ classes_needed.n = 0
              /\ \A m \in 0..MaxPlausible : ~Reaches(m)

\* 7 of 10 with target 75 needs 2 more classes: 9 of 12 is 75 percent and
\* 8 of 11 is below it
C12_Witness ==
    /\ C12_Inputs
    /\ current_present = 7
    /\ current_total = 10
    /\ target_percentage = 75
    /\ classes_needed = [inf |-> FALSE, n |-> 2]

(***************************************************************************)
(* Properties of calculate_classes_can_miss.                               *)
(***************************************************************************)
\* C13: with current_total > 0 and the current percentage below the target,
\* calculate_classes_can_miss returns 0 for every number of upcoming classes.
C13_ZeroBelowTarget ==
    (/\ mpc = "returned"
     /\ current_total > 0
     /\ 100 * current_present < target_percentage * current_total)
        => classes_can_miss = 0

\* 8 of 11 (72.73 percent) with target 73 and 4 upcoming classes returned 0
C13_Witness ==
    /\ mpc = "returned"
    /\ current_present = 8
    /\ current_total = 11
    /\ target_percentage = 73
    /\ upcoming_classes = 4
    /\ classes_can_miss = 0

\* C14: calculate_classes_can_miss returns 0 whenever upcoming_classes <= 0,
\* for every current_present, current_total and target_percentage.
C14_ZeroWithoutUpcoming ==
    (mpc = "returned" /\ upcoming_classes <= 0) => classes_can_miss = 0

\* C15: for current_total >= 0, 0 <= current_present <= current_total, a
\* target in 0..100 and upcoming_classes >= 0, the result of
\* calculate_classes_can_miss lies in 0..upcoming_classes.
C15_WithinUpcoming ==
    (/\ mpc = "returned"
     /\ current_present <= current_total
     /\ target_percentage \in 0..100
     /\ upcoming_classes >= 0)
        => classes_can_miss \in 0..upcoming_classes

\* 10 of 10 with target 0 and 3 upcoming classes: the unlimited value is 13,
\* the result is 3
C15_Witness ==
    /\ mpc = "returned"
    /\ current_present = 10
    /\ current_total = 10
    /\ target_percentage = 0
    /\ upcoming_classes = 3
    /\ classes_can_miss = 3

\* missing k of the upcoming classes leaves the final percentage at or above
\* the target
Keeps(k) ==
    100 * (current_present + upcoming_classes - k)
        >= target_percentage * (current_total + upcoming_classes)

\* C16: for current_total > 0, upcoming_classes > 0, a target in 0..100 and
\* a current percentage at or above the target, the result is the greatest
\* k in 0..upcoming_classes such that missing k of the upcoming classes
\* leaves the final percentage at or above the target.
C16_GreatestSkip ==
    (/\ mpc = "returned"
     /\ current_total > 0
     /\ upcoming_classes > 0
     /\ target_percentage \in 0..100
     /\ 100 * current_present >= target_percentage * current_total)
        => /\ classes_can_miss \in 0..upcoming_classes
           /\ Keeps(classes_can_miss)
           /\ \A k \in 0..upcoming_classes : Keeps(k) => k <= classes_can_miss

(***************************************************************************)
(* Properties of the table localization and of the row scan.               *)
(***************************************************************************)
ClosingWords ==
    << <<"t", "h", "e", "o", "r", "y">>,
       <<"p", "r", "a", "c", "t", "i", "c", "a", "l">>,
       <<"t", "u", "t", "o", "r", "i", "a", "l">>,
       <<"t", "o", "t", "a", "l">>,
       <<"n", "o", "t", "e">> >>

\* the line begins, after leading whitespace and in any case, with a closing
\* keyword
BeginsWithKeyword(line) ==
    LET t == Strip(line)
    IN  \E k \in 1..Len(ClosingWords) :
           /\ Len(t) >= Len(ClosingWords[k])
           /\ \A h \in 1..Len(ClosingWords[k]) : Lower(t[h]) = ClosingWords[k][h]

\* a line of the data region among the first n lines begins with a closing
\* keyword
ClosedBy(n) == \E j \in (start_idx + 1)..n : BeginsWithKeyword(lines[j])

\* C17: row scanning is one-way terminal: a row is only ever added by a
\* line that has no closing-keyword line of the data region at or before
\* it, and the rows accepted before the closing line are the subjects of
\* the returned record.
C17_ScanTerminal ==
    /\ [][data' # data => (pc = "scan" /\ i < Len(lines) /\ ~ClosedBy(i + 1))]_vars
    /\ [](pc = "done" /\ ClosedBy(Len(lines)) => Subjects = data)

\* the header matches of the text: pattern k matches line n (from 1)
HeaderHits ==
    LET all == {[k |-> k, n |-> n, ok |-> ReSearch(start_patterns[k], DocLines[n], TRUE).ok] :
                   k \in 1..Len(start_patterns), n \in 1..Len(DocLines)}
    IN  {x \in all : x.ok}

\* the 0-based index of the line after the first line matched by the
\* highest-priority header pattern that matches a line, 0 when none does
DataStart ==
    LET hits == HeaderHits
    IN  IF hits = {} THEN 0
        ELSE (CHOOSE x \in hits :
                 \A y \in hits : x.k < y.k \/ (x.k = y.k /\ x.n <= y.n)).n

\* C18: the scan is started at the line after the first line matched by the
\* highest-priority header pattern that matches any line, at line 0 when no
\* pattern matches a line; the start of the data region is not changed
\* later, the scan never moves back, and no line before the data region,
\* so no line at or before the header line, adds a row.
C18_DataRegion ==
    /\ [][(pc = "check" /\ pc' = "scan") => (start_idx' = DataStart /\ i' = DataStart)]_vars
    /\ [][pc = "scan" => (start_idx' = start_idx /\ i' >= i)]_vars
    /\ [][data' # data => (pc = "scan" /\ i >= start_idx)]_vars

\* a lower-priority header on line 0, a data line on line 1 and a
\* higher-priority header on line 2: the scan started at line 3 and only
\* the data line after it was returned
C18_Witness ==
    /\ pc = "done"
    /\ pdf.pages = <<PgHeaders, LnRowTight>>
    /\ start_idx = 3
    /\ Len(Subjects) = 1
    /\ Subjects[1].Present = 9

\* the tokens of the line the scan is at
Toks == ReSplitWide(Strip(lines[i + 1]))

\* the token tier adds a row for the line the scan is at
TokenRowAdded ==
    /\ pc = "scan"
    /\ i < Len(lines)
    /\ data' # data
    /\ Len(Toks) >= 5
    /\ \E k \in 1..Len(Toks) : IsTypeCode(Toks[k])

\* the row just added
NewRow == data'[Len(data')]

\* the position of the type-code token that is the row's Type
TypePos == CHOOSE k \in 1..Len(Toks) : Toks[k] = NewRow.Type /\ \A h \in 1..(k - 1) : Toks[h] # NewRow.Type

\* the positions after the type code of the digit-only tokens
NumsAfterType == {k \in (TypePos + 1)..Len(Toks) : AllDigits(Toks[k])}

\* the positions after the type code of the digit-only tokens directly
\* followed by a digit-only token
PairsAfterType == {k \in NumsAfterType : k + 1 \in NumsAfterType}

\* C19 as stated: the row of the token tier has as Present the first
\* digit-only token after the type-code token and as Total the next
\* digit-only token after that one, whatever lies between them.
C19_FirstTwoNumbers ==
    [][TokenRowAdded =>
         /\ Cardinality(NumsAfterType) >= 2
         /\ NewRow.Present = DigitsVal(Toks[Nth(NumsAfterType, 1)], 0)
         /\ NewRow.Total = DigitsVal(Toks[Nth(NumsAfterType, 2)], 0)]_vars

\* C19 as the code has it: the row of the token tier has as Present the
\* first digit-only token after the type-code token that is directly
\* followed by a digit-only token, and as Total that following token; a
\* token that is not a number may lie between the type code and the pair,
\* and a digit-only token directly followed by one that is not a number is
\* passed over.
C19_FirstAdjacentPair ==
    [][TokenRowAdded =>
         /\ PairsAfterType # {}
         /\ NewRow.Present = DigitsVal(Toks[Nth(PairsAfterType, 1)], 0)
         /\ NewRow.Total = DigitsVal(Toks[Nth(PairsAfterType, 1) + 1], 0)]_vars

\* the line "1  P  TH  5  x  7  9" was returned as a row with 7 of 9
C19_Witness ==
    /\ pc = "done"
    /\ \E k \in 1..Len(pdf.pages) : pdf.pages[k] = LnGapWide
    /\ \E k \in 1..Len(Subjects) : Subjects[k].Present = 7 /\ Subjects[k].Total = 9

\* the line has the row shape, tight or wide, with a total above 0
ValidRowLine(line) ==
    /\ TightShape(Strip(line)) \/ WideShape(Strip(line))
    /\ ShapeTotal(ShapeFields(Strip(line))) > 0

\* the row of line with the row shape is among the returned subjects
Returned(line) ==
    \E k \in 1..Len(Subjects) :
       /\ Subjects[k].Subject = ShapeSubject(ShapeFields(Strip(line)))
       /\ Subjects[k].Type = ShapeType(ShapeFields(Strip(line)))
       /\ Subjects[k].Present = ShapePresent(ShapeFields(Strip(line)))
       /\ Subjects[k].Total = ShapeTotal(ShapeFields(Strip(line)))

\* C20: every line of the data region before any closing keyword that has
\* the row shape with total > 0 is among the returned subjects, whatever
\* the other lines of the text contain.
C20_ValidRowsKept ==
    (pc = "done" /\ pdf.opens) =>
       \A n \in (DataStart + 1)..Len(DocLines) :
          (/\ \A j \in (DataStart + 1)..n : ~BeginsWithKeyword(DocLines[j])
           /\ ValidRowLine(DocLines[n]))
             => Returned(DocLines[n])

(***************************************************************************)
(* Properties of the upcoming classes.                                     *)
(***************************************************************************)
\* the attendance counted after the upcoming classes held so far is at or
\* above the target
RunningAtTarget ==
    100 * (current_present + sessions_attended)
        >= target_percentage * (current_total + sessions_attended + sessions_missed)

\* current_present of current_total is at or above the target
AtTargetAtStart == 100 * current_present >= target_percentage * current_total

\* C21 as stated: starting at or above the target, when the student misses
\* at most classes_can_miss of the upcoming classes, in any order, the
\* running attendance percentage is at or above the target after every one
\* of the upcoming classes.
C21_AlwaysAtTarget == (mpc = "returned" /\ AtTargetAtStart) => RunningAtTarget

\* C21 as the code has it: starting at or above the target, when the
\* student misses at most classes_can_miss of the upcoming classes, in any order, the attendance percentage is at
\* or above the target after the last of the upcoming classes, and after
\* every one of them as long as no class has been missed; after an earlier
\* class that follows a miss it may be below the target.
C21_AtTargetAtEnd ==
    (/\ mpc = "returned"
     /\ AtTargetAtStart
     /\ sessions_attended + sessions_missed = upcoming_classes \/ sessions_missed = 0)
        => RunningAtTarget

\* 9 of 12 with target 75 and 4 upcoming classes: 1 can be missed; after
\* the first class is missed the count is 9 of 13, below 75 percent, and
\* after all four it is 12 of 16, exactly 75 percent
C21_Witness ==
    /\ mpc = "returned"
    /\ current_present = 9
    /\ current_total = 12
    /\ target_percentage = 75
    /\ upcoming_classes = 4
    /\ classes_can_miss = 1
    /\ sessions_missed = 1
    /\ sessions_attended = 3
    /\ RunningAtTarget

=============================================================================


